---- MODULE Spec2Model ----
(***************************************************************************)
(* fint_backend: coupon lifecycle (fintCoupon.controller.js, carried in    *)
(* src/.env.example), the admin/user auth middlewares                      *)
(* (src/src/middlewares/auth.admin.middleware.js) and the user model's     *)
(* token methods (src/unnamed/part_000).                                   *)
(*                                                                         *)
(* Granularity: one step per document-store operation, together with the   *)
(* synchronous JavaScript that follows it up to the next await.  A handler *)
(* that awaits the store more than once is in `inflight` between its       *)
(* store operations, so that other requests interleave there.              *)
(***************************************************************************)
EXTENDS Integers, Sequences, FiniteSets, TLC

\* ---- bounds of the model ------------------------------------------------
MaxCoupons == 2
MaxTime == 1
MaxInflight == 2
MaxPrincipals == 1
MaxAds == 2
MaxViews == 3
MaxViewTime == 3
MaxAuthTime == 2
\* expiresIn of the access and of the refresh token, in ticks of the clock
AccessTTL == 1
RefreshTTL == 2

\* ---- program constants -------------------------------------------------
\* claimPercentage: Joi.number().min(0).max(100)
ClaimMin == 0
ClaimMax == 100

\* The ticks of the clock in one calendar day ("%Y-%m-%d" of a timestamp).
TicksPerDay == 2

VARIABLES
    coupons,    \* the Coupon collection: a sequence in creation order; _id = index
    ads,        \* the Advertisement collection, likewise
    now,        \* the clock read by new Date()
    inflight,   \* handlers suspended between two store operations
    resp,       \* the response sent by the latest step ([op |-> "none"] if none)
    principals, \* the Admin and User collections: kind -> id -> document
    issued,     \* the tokens signed so far
    accepted    \* history: the access tokens a middleware has let through

vars == <<coupons, ads, now, inflight, resp, principals, issued, accepted>>
auth == <<principals, issued, accepted>>

Statuses == {"active", "expired", "deleted", "rejected", "claimed"}
Ventures == {"v1", "v2"}
Dates == 1..(MaxTime + 1)
\* req.params.id: a well-formed ObjectId (1..MaxCoupons, present or not) or
\* a malformed one (BadId), on which findById throws a CastError
BadId == 0
ReqIds == 0..MaxCoupons

NoResp == [op |-> "none"]

\* ---- Joi schemas --------------------------------------------------------
\* A text field of the body: absent, blank (empty after trim) or a text.
StrStates == {"missing", "empty", "ok"}
\* expiryDate of the body: absent, not a date, or a date v.
DateStates ==
    {[st |-> "missing", v |-> 0], [st |-> "invalid", v |-> 0]}
        \cup {[st |-> "ok", v |-> d] : d \in Dates}
\* A message of error.details: the key and the rule that failed.
Msg(key, rule) == <<key, rule>>

\* Joi.string().trim().required()
RequiredString(key, st) ==
    IF st = "missing" THEN <<Msg(key, "any.required")>>
    ELSE IF st = "empty" THEN <<Msg(key, "string.empty")>>
    ELSE <<>>

\* Joi.date().required()
RequiredDate(key, d) ==
    IF d.st = "missing" THEN <<Msg(key, "any.required")>>
    ELSE IF d.st = "invalid" THEN <<Msg(key, "date.base")>>
    ELSE <<>>

\* Joi.date().optional()
OptionalDate(key, d) ==
    IF d.st = "invalid" THEN <<Msg(key, "date.base")>> ELSE <<>>

\* Joi.string().uri().optional().allow(null, ""): logo is null (no file),
\* a URI (file.location) or a local path (file.path), which is no URI.
LogoUri(key, logo) ==
    IF logo = "path" THEN <<Msg(key, "string.uri")>> ELSE <<>>

\* Joi.number().min(0).max(100).optional(); the field is a set: {} absent.
ClaimRange(key, cp) ==
    IF cp = {} THEN <<>>
    ELSE LET x == CHOOSE y \in cp : TRUE
         IN  IF x < ClaimMin THEN <<Msg(key, "number.min")>>
             ELSE IF x > ClaimMax THEN <<Msg(key, "number.max")>>
             ELSE <<>>

\* abortEarly: false keeps every message; abortEarly: true only the first.
AbortEarly(early, msgs) ==
    IF early /\ Len(msgs) > 1 THEN <<msgs[1]>> ELSE msgs

\* couponSchema.validate(formData, { abortEarly: false }): the messages, in
\* the order of the schema's keys.  .unknown(true): other keys (status)
\* raise nothing.
couponSchemaNoRange(formData) ==
    AbortEarly(FALSE,
        RequiredString("couponTitle", formData.couponTitle)
        \o LogoUri("logo", formData.logo)
        \o RequiredString("offerTitle", formData.offerTitle)
        \o RequiredString("offerDescription", formData.offerDescription)
        \o RequiredString("termsAndConditions", formData.termsAndConditions)
        \o RequiredDate("expiryDate", formData.expiryDate))

couponSchemaAbortEarly(formData) ==
    AbortEarly(TRUE,
        RequiredString("couponTitle", formData.couponTitle)
        \o LogoUri("logo", formData.logo)
        \o RequiredString("offerTitle", formData.offerTitle)
        \o RequiredString("offerDescription", formData.offerDescription)
        \o RequiredString("termsAndConditions", formData.termsAndConditions)
        \o RequiredDate("expiryDate", formData.expiryDate)
        \o ClaimRange("claimPercentage", formData.claimPercentage))

couponSchema(formData) ==
    AbortEarly(FALSE,
        RequiredString("couponTitle", formData.couponTitle)
        \o LogoUri("logo", formData.logo)
        \o RequiredString("offerTitle", formData.offerTitle)
        \o RequiredString("offerDescription", formData.offerDescription)
        \o RequiredString("termsAndConditions", formData.termsAndConditions)
        \o RequiredDate("expiryDate", formData.expiryDate)
        \o ClaimRange("claimPercentage", formData.claimPercentage))

\* editCouponSchema.validate(updatedData, { abortEarly: false }): every key
\* optional; couponTitle min(3); no .unknown(true), so a key the schema does
\* not name (status) is refused.
editCouponSchemaUnknown(updatedData) ==
    (IF updatedData.couponTitle = "short"
        THEN <<Msg("couponTitle", "string.min")>> ELSE <<>>)
    \o OptionalDate("expiryDate", updatedData.expiryDate)

editCouponSchema(updatedData) ==
    (IF updatedData.couponTitle = "short"
        THEN <<Msg("couponTitle", "string.min")>> ELSE <<>>)
    \o OptionalDate("expiryDate", updatedData.expiryDate)
    \o (IF updatedData.status # "missing"
        THEN <<Msg("status", "object.unknown")>> ELSE <<>>)

\* ---- the Coupon model --------------------------------------------------
\* new Coupon(value): the document built from the validated body.  The
\* schema's own fields are kept, status defaults to "active".
NewCoupon(value) ==
    [status |-> IF value.status = "missing" THEN "active" ELSE value.status,
     expiryDate |-> value.expiryDate.v,
     createdBy |-> value.createdBy,
     claimPercentage |-> value.claimPercentage]

\* Coupon.findById(id): the document, when there is one.
Exists(id) == id \in 1..Len(coupons)

\* .sort({ createdAt: -1 }): the ids, newest first.
NewestFirst == [i \in 1..Len(coupons) |-> Len(coupons) + 1 - i]

\* The fields a listing returns for document i.
Format(i) ==
    [id |-> i,
     expiryDate |-> coupons[i].expiryDate,
     status |-> coupons[i].status,
     claimPercentage |-> coupons[i].claimPercentage]

\* Coupon.find({ status }).sort({ createdAt: -1 }).map(format)
FindByStatus(status) ==
    LET ids == SelectSeq(NewestFirst, LAMBDA i : coupons[i].status = status)
    IN  [k \in 1..Len(ids) |-> Format(ids[k])]

\* Coupon.updateMany({ expiryDate: { $lte: at }, status: "active" },
\*                   { $set: { status: "expired" } })
SweepAnyStatus(cs, at) ==
    [i \in 1..Len(cs) |->
        IF cs[i].expiryDate <= at
        THEN [cs[i] EXCEPT !.status = "expired"]
        ELSE cs[i]]

Sweep(cs, at) ==
    [i \in 1..Len(cs) |->
        IF cs[i].expiryDate <= at /\ cs[i].status = "active"
        THEN [cs[i] EXCEPT !.status = "expired"]
        ELSE cs[i]]

\* ---- requests ----------------------------------------------------------
\* req.body of POST /create.  ValidationBodies vary what the rules of
\* couponSchema read: each required key absent or present (couponTitle also
\* blank), claimPercentage absent, in range and out of range, and a key
\* the schema does not name (status).
ValidationBodies ==
    [couponTitle : StrStates,
     offerTitle : {"missing", "ok"},
     offerDescription : {"missing", "ok"},
     termsAndConditions : {"missing", "ok"},
     expiryDate : {d \in DateStates : d.st # "invalid" /\ d.v <= 1},
     claimPercentage : {{}, {ClaimMin - 1}, {ClaimMin}, {ClaimMax}, {ClaimMax + 1}},
     status : {"missing"},
     logo : {"missing"},
     createdBy : {"missing"}]

\* Bodies sent together with a logo file: with a date that is none, and
\* with a key the schema does not name (status).
UploadBodies ==
    [couponTitle : {"ok"},
     offerTitle : {"missing", "ok"},
     offerDescription : {"ok"},
     termsAndConditions : {"ok"},
     expiryDate : {d \in DateStates : d.v <= 1},
     claimPercentage : {{}},
     status : {"missing", "expired"},
     logo : {"missing"},
     createdBy : {"missing"}]

\* The bodies of the lifecycle's requests: well-formed (or lacking one
\* key), with every expiry date.
LifecycleBodies ==
    [couponTitle : {"ok"},
     offerTitle : {"ok"},
     offerDescription : {"ok", "missing"},
     termsAndConditions : {"ok"},
     expiryDate : {d \in DateStates : d.st = "ok"},
     claimPercentage : {{}},
     status : {"missing"},
     logo : {"missing"},
     createdBy : {"missing"}]

\* req.body of PATCH /edit/:id
EditBodies ==
    [couponTitle : {"missing"},
     expiryDate : {d \in DateStates : d.st # "invalid"},
     status : {"missing"}]
    \cup [couponTitle : {"short"},
          expiryDate : {d \in DateStates : d.st = "missing"},
          status : {"missing"}]
    \cup [couponTitle : {"missing"},
          expiryDate : {d \in DateStates : d.v = MaxTime + 1},
          status : {"active"}]

\* req.file of upload.single("logo"): none, or a file with a location or
\* only a path
Files == {"none", "uri", "path"}

\* req.file ? req.file.path || req.file.location : null
LogoUrl(file) == IF file = "none" THEN "null" ELSE file

\* ---- tokens and principals ---------------------------------------------
Kinds == {"admin", "user"}
\* The collections of principals: Admin, User and Venture.
PrincipalKinds == Kinds \cup {"venture"}
PrincipalIds == 1..MaxPrincipals

\* What a request carries where a token is expected: nothing, a string
\* that is no token of this server, or a token it signed.
NoCred == [t |-> "none"]
Garbage == [t |-> "garbage"]

\* jwt.sign({ <claim>: principal._id }, secret, { expiresIn: ttl }) at `at`
Sign(claim, kind, n, secret, ttl, at) ==
    [t |-> "jwt", secret |-> secret, claim |-> claim, kind |-> kind, n |-> n,
     iat |-> at, exp |-> at + ttl]

\* userSchema.methods.generateAccessToken / generateRefreshToken: the
\* principal's id is signed under the key `id`.
generateAccessToken(n, at) ==
    Sign("id", "user", n, "ACCESS_TOKEN_SECRET", AccessTTL, at)

generateRefreshToken(n, at) ==
    Sign("id", "user", n, "REFRESH_TOKEN_SECRET", RefreshTTL, at)

\* The Admin model's token methods: the id is signed under the key `_id`,
\* the key adminverifyJWT reads.
adminGenerateAccessToken(n, at) ==
    Sign("_id", "admin", n, "ACCESS_TOKEN_SECRET", AccessTTL, at)

adminGenerateRefreshToken(n, at) ==
    Sign("_id", "admin", n, "REFRESH_TOKEN_SECRET", RefreshTTL, at)

\* The Venture model's token methods, like the Admin model's.
ventureGenerateAccessToken(n, at) ==
    Sign("_id", "venture", n, "ACCESS_TOKEN_SECRET", AccessTTL, at)

ventureGenerateRefreshToken(n, at) ==
    Sign("_id", "venture", n, "REFRESH_TOKEN_SECRET", RefreshTTL, at)

AccessTokenOf(kind, n, at) ==
    IF kind = "user" THEN generateAccessToken(n, at)
    ELSE IF kind = "venture" THEN ventureGenerateAccessToken(n, at)
    ELSE adminGenerateAccessToken(n, at)

RefreshTokenOf(kind, n, at) ==
    IF kind = "user" THEN generateRefreshToken(n, at)
    ELSE IF kind = "venture" THEN ventureGenerateRefreshToken(n, at)
    ELSE adminGenerateRefreshToken(n, at)

\* jwt.verify(token, secret) at time `at`: throws JsonWebTokenError on a
\* string that is no token or is signed with another secret, and
\* TokenExpiredError once at >= exp; otherwise returns the payload.
JwtVerifyIgnoreExpiration(cred, secret, at) ==
    IF cred.t # "jwt" \/ cred.secret # secret THEN "JsonWebTokenError"
    ELSE "ok"

JwtVerify(cred, secret, at) ==
    IF cred.t # "jwt" \/ cred.secret # secret THEN "JsonWebTokenError"
    ELSE IF at >= cred.exp THEN "TokenExpiredError"
    ELSE "ok"

\* Model.findById(decoded._id): the payload's `_id` is undefined unless the
\* token was signed with that key, and findById(undefined) finds nothing;
\* an id of the other collection finds nothing either.
FindById(kind, cred) ==
    IF cred.claim = "_id" /\ cred.kind = kind /\ cred.n \in PrincipalIds
    THEN {cred.n} ELSE {}

\* authHeader?.startsWith("Bearer ") ? authHeader.split(" ")[1] : null
BearerToken(header) ==
    IF header.scheme = "Bearer" THEN header.cred ELSE NoCred

\* The try block of adminverifyJWT / userverifyJWT: what it throws, or
\* "next" when it attaches the principal and calls next().
TryVerifyJWT(kind, token) ==
    IF JwtVerify(token, "ACCESS_TOKEN_SECRET", now) # "ok"
    THEN [thrown |-> JwtVerify(token, "ACCESS_TOKEN_SECRET", now), code |-> 0]
    ELSE IF FindById(kind, token) = {}
    THEN [thrown |-> "ApiError", code |-> 404]
    ELSE [thrown |-> "next", code |-> 0]

\* The try block of verifyRefreshToken without the comparison with the
\* stored token.
TryVerifyRefreshTokenNoCompare(kind, token) ==
    IF JwtVerify(token, "REFRESH_TOKEN_SECRET", now) # "ok"
    THEN [thrown |-> JwtVerify(token, "REFRESH_TOKEN_SECRET", now), code |-> 0]
    ELSE IF FindById(kind, token) = {}
    THEN [thrown |-> "ApiError", code |-> 403]
    ELSE [thrown |-> "next", code |-> 0]

\* The try block of verifyRefreshToken: what it throws, or "next".
TryVerifyRefreshToken(kind, token) ==
    IF JwtVerify(token, "REFRESH_TOKEN_SECRET", now) # "ok"
    THEN [thrown |-> JwtVerify(token, "REFRESH_TOKEN_SECRET", now), code |-> 0]
    ELSE IF \/ FindById(kind, token) = {}
            \/ principals[kind][token.n].refreshToken # token
    THEN [thrown |-> "ApiError", code |-> 403]
    ELSE [thrown |-> "next", code |-> 0]

\* catch (error) { throw new ApiError(401, ...) }: whatever the try block
\* threw, the request is answered 401.
Catch(tried) == IF tried.thrown = "next" THEN 0 ELSE 401

\* if (!token) { throw new ApiError(401, ...) }, ahead of the try block.
MissingTokenBadRequest == [thrown |-> "missing", code |-> 400]

MissingTokenError == [thrown |-> "missing", code |-> 401]

Init ==
    /\ coupons = <<>>
    /\ ads = <<>>
    /\ now = 0
    /\ inflight = {}
    /\ resp = NoResp
    /\ principals = [k \in PrincipalKinds |-> [n \in PrincipalIds |-> [refreshToken |-> NoCred]]]
    /\ issued = {}
    /\ accepted = {}

\* Time passes (up to `limit`).
Tick(limit) ==
    /\ now < limit
    /\ now' = now + 1
    /\ resp' = NoResp
    /\ UNCHANGED <<coupons, ads, inflight, auth>>

\* POST /create: createCoupon, for the venture v the middleware attached.
createCoupon(v, file, body) ==
    LET formData == [body EXCEPT !.logo = LogoUrl(file), !.createdBy = v]
        errors == couponSchema(formData)
    IN  /\ UNCHANGED <<ads, now, inflight, auth>>
        /\ IF errors # <<>>
           THEN /\ resp' = [op |-> "createCoupon", code |-> 400,
                            errors |-> errors, body |-> body]
                /\ UNCHANGED coupons
           ELSE /\ Len(coupons) < MaxCoupons
                /\ coupons' = Append(coupons, NewCoupon(formData))
                /\ resp' = [op |-> "createCoupon", code |-> 201,
                            id |-> Len(coupons) + 1,
                            data |-> NewCoupon(formData), body |-> body]

\* ---- suspended handlers ------------------------------------------------
CanSuspend(r) == r \notin inflight /\ Cardinality(inflight) < MaxInflight

\* findById(id) of a handler: 500 on a malformed id (CastError), 404 when
\* there is no document.
LoadFailure(op, id) ==
    /\ ~Exists(id)
    /\ resp' = [op |-> op, code |-> IF id = BadId THEN 500 ELSE 404, id |-> id]
    /\ UNCHANGED <<coupons, ads, now, inflight, auth>>

\* doc.status = status; await doc.save(): the save writes the paths that
\* were modified on the loaded document, so nothing when the loaded status
\* already was `status`.
SaveStatusRemove(cs, r, status) ==
    [i \in 1..(Len(cs) - 1) |-> IF i < r.id THEN cs[i] ELSE cs[i + 1]]

SaveStatusGuardTerminal(cs, r, status) ==
    IF r.loaded \in {status, "deleted", "rejected"} THEN cs
    ELSE [cs EXCEPT ![r.id] = [@ EXCEPT !.status = status]]

SaveStatus(cs, r, status) ==
    IF r.loaded = status THEN cs
    ELSE [cs EXCEPT ![r.id] = [@ EXCEPT !.status = status]]

\* DELETE /reject/:id: rejectCouponById, up to its findById.
rejectCouponById_load(id) ==
    \/ LoadFailure("rejectCouponById", id)
    \/ /\ Exists(id)
       /\ LET r == [op |-> "rejectCouponById", id |-> id,
                    loaded |-> coupons[id].status]
          IN  /\ CanSuspend(r)
              /\ inflight' = inflight \cup {r}
       /\ resp' = NoResp
       /\ UNCHANGED <<coupons, ads, now, auth>>

\* rejectCouponById, from its save to the response.
rejectCouponById_save(r) ==
    /\ r.op = "rejectCouponById"
    /\ coupons' = SaveStatus(coupons, r, "rejected")
    /\ inflight' = inflight \ {r}
    /\ resp' = [op |-> r.op, code |-> 200, id |-> r.id, status |-> "rejected"]
    /\ UNCHANGED <<ads, now, auth>>

\* DELETE /delete/:id: deleteCouponById for venture v, up to its findById.
deleteCouponById_load(v, id) ==
    \/ LoadFailure("deleteCouponById", id)
    \/ /\ Exists(id)
       /\ LET r == [op |-> "deleteCouponById", id |-> id, venture |-> v,
                    loaded |-> coupons[id].status]
          IN  /\ CanSuspend(r)
              /\ inflight' = inflight \cup {r}
       /\ resp' = NoResp
       /\ UNCHANGED <<coupons, ads, now, auth>>

\* deleteCouponById, from its save to the response.
deleteCouponById_save(r) ==
    /\ r.op = "deleteCouponById"
    /\ coupons' = SaveStatus(coupons, r, "deleted")
    /\ inflight' = inflight \ {r}
    /\ resp' = [op |-> r.op, code |-> 200, id |-> r.id, venture |-> r.venture,
                status |-> "deleted"]
    /\ UNCHANGED <<ads, now, auth>>

\* PATCH /edit/:id: editCoupon for venture v, from its findById through the
\* validation to the call of findByIdAndUpdate.
editCoupon_load(v, id, body) ==
    \/ LoadFailure("editCoupon", id)
    \/ /\ Exists(id)
       /\ editCouponSchema(body) # <<>>
       /\ resp' = [op |-> "editCoupon", code |-> 400, id |-> id,
                   errors |-> editCouponSchema(body)]
       /\ UNCHANGED <<coupons, ads, now, inflight, auth>>
    \/ /\ Exists(id)
       /\ editCouponSchema(body) = <<>>
       /\ LET r == [op |-> "editCoupon", id |-> id, venture |-> v,
                    value |-> [expiryDate |-> body.expiryDate,
                               status |-> body.status]]
          IN  /\ CanSuspend(r)
              /\ inflight' = inflight \cup {r}
       /\ resp' = NoResp
       /\ UNCHANGED <<coupons, ads, now, auth>>

\* Coupon.findByIdAndUpdate(id, value, { new: true }): $set of the keys of
\* value, one atomic update of the document.
FindByIdAndUpdate(cs, id, value) ==
    [cs EXCEPT ![id] =
        [status |-> IF value.status = "missing" THEN @.status ELSE value.status,
         expiryDate |-> IF value.expiryDate.st = "ok"
                        THEN value.expiryDate.v ELSE @.expiryDate,
         createdBy |-> @.createdBy,
         claimPercentage |-> @.claimPercentage]]

\* editCoupon, from its findByIdAndUpdate to the response.
editCoupon_update(r) ==
    /\ r.op = "editCoupon"
    /\ coupons' = FindByIdAndUpdate(coupons, r.id, r.value)
    /\ inflight' = inflight \ {r}
    /\ resp' = [op |-> r.op, code |-> 200, id |-> r.id, venture |-> r.venture,
                data |-> FindByIdAndUpdate(coupons, r.id, r.value)[r.id]]
    /\ UNCHANGED <<ads, now, auth>>

\* Coupon.aggregate([{ $group: { _id: "$status", count: { $sum: 1 } } }])
\* reduced to { status: count }
StatusSummary ==
    [s \in {coupons[i].status : i \in 1..Len(coupons)} |->
        Cardinality({i \in 1..Len(coupons) : coupons[i].status = s})]

\* GET /display-all-coupons: displayCoupons, its updateMany at new Date().
displayCoupons_sweep ==
    /\ LET r == [op |-> "displayCoupons", at |-> now]
       IN  /\ CanSuspend(r)
           /\ inflight' = inflight \cup {r}
    /\ coupons' = Sweep(coupons, now)
    /\ resp' = NoResp
    /\ UNCHANGED <<ads, now, auth>>

\* displayCoupons, its find and aggregate and the response.  Both are reads
\* and are taken on the same store state.
displayCoupons_read(r) ==
    /\ r.op = "displayCoupons"
    /\ inflight' = inflight \ {r}
    /\ resp' = [op |-> r.op, code |-> 200, at |-> r.at,
                couponCount |-> Len(coupons),
                statusSummary |-> StatusSummary,
                coupons |-> [k \in 1..Len(coupons) |-> Format(NewestFirst[k])]]
    /\ UNCHANGED <<coupons, ads, now, auth>>

\* GET /active-coupons, /expired-coupons, /deleted-coupons:
\* displayActiveCoupons, displayExpiredCoupons, displayDeletedCoupons.
displayByStatus(op, status) ==
    /\ resp' = [op |-> op, code |-> 200,
                count |-> Len(FindByStatus(status)),
                coupons |-> FindByStatus(status)]
    /\ UNCHANGED <<coupons, ads, now, inflight, auth>>

displayActiveCoupons == displayByStatus("displayActiveCoupons", "active")
displayExpiredCoupons == displayByStatus("displayExpiredCoupons", "expired")
displayDeletedCoupons == displayByStatus("displayDeletedCoupons", "deleted")

\* ---- listing by venture -----------------------------------------------
\* A document of the collection as a handler returns it unformatted.
Document(i) ==
    [id |-> i,
     expiryDate |-> coupons[i].expiryDate,
     status |-> coupons[i].status,
     createdBy |-> coupons[i].createdBy,
     claimPercentage |-> coupons[i].claimPercentage]

\* Coupon.find({ createdByVenture: ventureId }): no document has that path.
FindByCreatedByVenture(ventureId) == <<>>

\* Coupon.find({ createdBy: ventureId }).sort({ createdAt: -1 })
FindByCreator(ventureId) ==
    LET ids == SelectSeq(NewestFirst, LAMBDA i : coupons[i].createdBy = ventureId)
    IN  [k \in 1..Len(ids) |-> Document(ids[k])]

\* const statusCounts = { active: 0, expired: 0, deleted: 0, rejected: 0,
\* claimed: 0 }
ZeroCounts == [s \in Statuses |-> 0]

\* coupons.forEach: statusCounts[status]++ when statusCounts has the key
RECURSIVE CountStatuses(_, _)
CountStatuses(list, statusCounts) ==
    IF list = <<>> THEN statusCounts
    ELSE CountStatuses(Tail(list),
            IF Head(list).status \in DOMAIN statusCounts
            THEN [statusCounts EXCEPT ![Head(list).status] = @ + 1]
            ELSE statusCounts)

\* mongoose.Types.ObjectId.isValid(req.venture?._id): the _id of a venture
\* the middleware attached is one.
ObjectIdIsValid(ventureId) == ventureId \in Ventures

\* GET /venture/:id: getVentureCouponsById for the venture the middleware
\* attached.
getVentureCouponsById(ventureId) ==
    /\ resp' = IF ~ObjectIdIsValid(ventureId)
               THEN [op |-> "getVentureCouponsById", code |-> 400,
                     venture |-> ventureId]
               ELSE [op |-> "getVentureCouponsById", code |-> 200,
                     venture |-> ventureId,
                     total |-> Len(FindByCreator(ventureId)),
                     statusCounts |->
                         CountStatuses(FindByCreator(ventureId), ZeroCounts),
                     coupons |-> FindByCreator(ventureId)]
    /\ UNCHANGED <<coupons, ads, now, inflight, auth>>

\* ---- advertisements ---------------------------------------------------
\* req.body of POST (createItem): title and validity absent or given.
AdBodies ==
    [title : {"missing", "ok"},
     description : {"ok"},
     validity : {d \in DateStates : d.st # "invalid"}]

\* Advertisement.create({ title, description, validity, img, createdBy }):
\* status defaults to "active", isExpired to false, viewers to [].
NewAdvertisement(body, ventureId) ==
    [status |-> "active",
     isExpired |-> FALSE,
     validity |-> body.validity.v,
     createdBy |-> ventureId,
     viewers |-> <<>>]

\* createItem for the venture the middleware attached.
createItem(ventureId, body) ==
    /\ UNCHANGED <<coupons, now, inflight, auth>>
    /\ IF body.title = "missing" \/ body.description = "missing"
          \/ body.validity.st = "missing"
       THEN /\ resp' = [op |-> "createItem", code |-> 400]
            /\ UNCHANGED ads
       ELSE /\ Len(ads) < MaxAds
            /\ ads' = Append(ads, NewAdvertisement(body, ventureId))
            /\ resp' = [op |-> "createItem", code |-> 201, id |-> Len(ads) + 1]

\* Advertisement.updateMany({ validity: { $lte: at }, status: "active" },
\*     { $set: { status: "expired", isExpired: true } })
SweepAdsAnyStatus(as, at) ==
    [i \in 1..Len(as) |->
        IF as[i].validity <= at
        THEN [as[i] EXCEPT !.status = "expired", !.isExpired = TRUE]
        ELSE as[i]]

SweepAds(as, at) ==
    [i \in 1..Len(as) |->
        IF as[i].validity <= at /\ as[i].status = "active"
        THEN [as[i] EXCEPT !.status = "expired", !.isExpired = TRUE]
        ELSE as[i]]

\* displayAdv, its updateMany at new Date().
displayAdv_sweep ==
    /\ LET r == [op |-> "displayAdv", at |-> now]
       IN  /\ CanSuspend(r)
           /\ inflight' = inflight \cup {r}
    /\ ads' = SweepAds(ads, now)
    /\ resp' = NoResp
    /\ UNCHANGED <<coupons, now, auth>>

\* displayAdv, its find().sort({ createdAt: -1 }) and the response.
displayAdv_read(r) ==
    /\ r.op = "displayAdv"
    /\ inflight' = inflight \ {r}
    /\ resp' = [op |-> r.op, code |-> 200, at |-> r.at,
                total |-> Len(ads),
                data |-> [k \in 1..Len(ads) |->
                            [id |-> Len(ads) + 1 - k,
                             status |-> ads[Len(ads) + 1 - k].status,
                             validity |-> ads[Len(ads) + 1 - k].validity]]]
    /\ UNCHANGED <<coupons, ads, now, auth>>

\* deleteItemById, up to its findById: 404 when there is no document (500
\* on a malformed id).
deleteItemById_load(id) ==
    \/ /\ id \notin 1..Len(ads)
       /\ resp' = [op |-> "deleteItemById",
                   code |-> IF id = BadId THEN 500 ELSE 404, id |-> id]
       /\ UNCHANGED <<coupons, ads, now, inflight, auth>>
    \/ /\ id \in 1..Len(ads)
       /\ LET r == [op |-> "deleteItemById", id |-> id,
                    loaded |-> ads[id].status]
          IN  /\ CanSuspend(r)
              /\ inflight' = inflight \cup {r}
       /\ resp' = NoResp
       /\ UNCHANGED <<coupons, ads, now, auth>>

\* deleteItemById, from ad.status = "deleted"; await ad.save() to the
\* response.
deleteItemById_save(r) ==
    /\ r.op = "deleteItemById"
    /\ ads' = SaveStatus(ads, r, "deleted")
    /\ inflight' = inflight \ {r}
    /\ resp' = [op |-> r.op, code |-> 200, id |-> r.id, status |-> "deleted"]
    /\ UNCHANGED <<coupons, now, auth>>

\* ---- analytics --------------------------------------------------------
\* { $unwind: "$viewers" }: one row for each view record of each document.
RECURSIVE Unwind(_)
Unwind(as) ==
    IF as = <<>> THEN <<>> ELSE Head(as).viewers \o Unwind(Tail(as))

\* { $dateToString: { format: "%Y-%m-%d", date: "$viewers.viewedAt" } }:
\* the calendar day of a timestamp; the strings order as the days do.
DateToString(viewedAt) == viewedAt \div TicksPerDay

\* { $group: { _id: { day }, totalViews: { $sum: 1 },
\*             uniqueUsers: { $addToSet: "$viewers.userId" } } }
GroupByDayPush(rows) ==
    [day \in {DateToString(rows[k].viewedAt) : k \in 1..Len(rows)} |->
        LET ks == {k \in 1..Len(rows) : DateToString(rows[k].viewedAt) = day}
        IN  [totalViews |-> Cardinality(ks),
             uniqueUsers |-> ks]]

GroupByDay(rows) ==
    [day \in {DateToString(rows[k].viewedAt) : k \in 1..Len(rows)} |->
        LET ks == {k \in 1..Len(rows) : DateToString(rows[k].viewedAt) = day}
        IN  [totalViews |-> Cardinality(ks),
             uniqueUsers |-> {rows[k].userId : k \in ks}]]

\* { $project: { _id: 0, date: "$_id.day", totalViews: 1,
\*               uniqueUsersCount: { $size: "$uniqueUsers" } } }
Project(groups, day) ==
    [date |-> day,
     totalViews |-> groups[day].totalViews,
     uniqueUsersCount |-> Cardinality(groups[day].uniqueUsers)]

\* { $sort: { date: -1 } } over the projected groups of `days`.
RECURSIVE SortByDateDesc(_, _)
SortByDateDesc(groups, days) ==
    IF days = {} THEN <<>>
    ELSE LET latest == CHOOSE d \in days : \A e \in days : e <= d
         IN  <<Project(groups, latest)>>
                \o SortByDateDesc(groups, days \ {latest})

\* analytics: the aggregation over the Advertisement collection.
analytics ==
    /\ resp' = [op |-> "analytics", code |-> 200,
                data |-> SortByDateDesc(GroupByDay(Unwind(ads)),
                                        DOMAIN GroupByDay(Unwind(ads)))]
    /\ UNCHANGED <<coupons, ads, now, inflight, auth>>

\* The viewers arrays analytics can meet: the views logged so far (at most
\* MaxViews, in the order of their timestamps), each on one of two
\* advertisements by one of two users.
Users == {"userA", "userB"}
ViewedAds == {1, 2}
ViewRecords == [ad : ViewedAds, userId : Users, viewedAt : 0..MaxViewTime]

ViewLogs ==
    UNION {{log \in [1..n -> ViewRecords] :
                \A k \in 1..(n - 1) : log[k].viewedAt <= log[k + 1].viewedAt}
            : n \in 0..MaxViews}

\* The collection after the views of `log`: an active and a deleted
\* advertisement, each with its views in the order logged.
ViewersOf(log, ad) ==
    LET mine == SelectSeq(log, LAMBDA v : v.ad = ad)
    IN  [k \in 1..Len(mine) |->
            [userId |-> mine[k].userId, viewedAt |-> mine[k].viewedAt]]

AdsOf(log) ==
    [ad \in ViewedAds |->
        [status |-> IF ad = 1 THEN "active" ELSE "deleted",
         isExpired |-> FALSE,
         validity |-> MaxViewTime + 1,
         createdBy |-> "v1",
         viewers |-> ViewersOf(log, ad)]]

InitAnalytics ==
    /\ coupons = <<>>
    /\ ads \in {AdsOf(log) : log \in ViewLogs}
    /\ now = MaxViewTime
    /\ inflight = {}
    /\ resp = NoResp
    /\ principals = [k \in PrincipalKinds |-> [n \in PrincipalIds |-> [refreshToken |-> NoCred]]]
    /\ issued = {}
    /\ accepted = {}

\* ---- auth middlewares -------------------------------------------------
\* The strings a client can put where a token is expected.
Creds == issued \cup {Garbage}

\* req.header("Authorization"): none, another scheme, "Bearer " alone, or
\* "Bearer <string>".
AuthHeaders ==
    {[scheme |-> "none", cred |-> NoCred],
     [scheme |-> "Basic", cred |-> Garbage],
     [scheme |-> "Bearer", cred |-> NoCred]}
        \cup {[scheme |-> "Bearer", cred |-> c] : c \in Creds}

\* <<req.cookies?.refreshToken, req.header("x-refresh-token")>>
RefreshInputs ==
    {<<c, NoCred>> : c \in Creds \cup {NoCred}}
        \cup {<<NoCred, c>> : c \in issued}
        \cup {<<Garbage, c>> : c \in issued}

\* The handlers routed behind the access-token middleware: logout writes
\* the principal, the others (profile) do not.
GuardedRoutes == {"logout", "profile"}

\* adminverifyJWT / userverifyJWT on a request to `route`.  The response
\* records what the middleware threw first (`thrown`: "missing" ahead of the
\* try block, the error of the try block, or "next") and the status sent.
verifyJWT(kind, route, header) ==
    LET token == BearerToken(header)
        tried == IF token = NoCred THEN MissingTokenError
                 ELSE TryVerifyJWT(kind, token)
        next == tried.thrown = "next"
        r == [op |-> "logout", kind |-> kind, n |-> token.n]
    IN  /\ resp' = [op |-> "verifyJWT", kind |-> kind, header |-> header,
                    token |-> token, next |-> next,
                    thrown |-> tried.thrown, thrownCode |-> tried.code,
                    code |-> IF token = NoCred THEN tried.code ELSE Catch(tried),
                    attached |-> IF next THEN FindById(kind, token) ELSE {}]
        /\ accepted' = IF next THEN accepted \cup {token} ELSE accepted
        /\ IF next /\ route = "logout"
           THEN CanSuspend(r) /\ inflight' = inflight \cup {r}
           ELSE UNCHANGED inflight
        /\ UNCHANGED <<coupons, ads, now, principals, issued>>

adminverifyJWT(route, header) == verifyJWT("admin", route, header)
userverifyJWT(route, header) == verifyJWT("user", route, header)

\* verifyRefreshToken of the admin and of the user middleware, on a request
\* to /refresh-token.
verifyRefreshToken(kind, cookie, xheader) ==
    LET refreshToken == IF cookie # NoCred THEN cookie ELSE xheader
        tried == IF refreshToken = NoCred THEN MissingTokenError
                 ELSE TryVerifyRefreshToken(kind, refreshToken)
        next == tried.thrown = "next"
        r == [op |-> "refreshAccessToken", kind |-> kind, n |-> refreshToken.n]
    IN  /\ resp' = [op |-> "verifyRefreshToken", kind |-> kind,
                    cookie |-> cookie, xheader |-> xheader,
                    token |-> refreshToken, next |-> next,
                    code |-> IF refreshToken = NoCred THEN tried.code
                             ELSE Catch(tried),
                    attached |-> IF next THEN FindById(kind, refreshToken) ELSE {}]
        /\ IF next
           THEN CanSuspend(r) /\ inflight' = inflight \cup {r}
           ELSE UNCHANGED inflight
        /\ UNCHANGED <<coupons, ads, now, principals, issued, accepted>>

adminVerifyRefreshToken(cookie, xheader) == verifyRefreshToken("admin", cookie, xheader)
userVerifyRefreshToken(cookie, xheader) == verifyRefreshToken("user", cookie, xheader)

\* ---- the coupon router ------------------------------------------------
\* router.<method>(path, [middleware,] handler): the middleware, if any,
\* ahead of the handler of each route that writes coupons.
couponRouterOpenDelete ==
    [create |-> "ventureVentureverifyJWT",
     edit |-> "ventureVentureverifyJWT",
     delete |-> "none",
     reject |-> "none"]

couponRouter ==
    [create |-> "ventureVentureverifyJWT",
     edit |-> "ventureVentureverifyJWT",
     delete |-> "ventureVentureverifyJWT",
     reject |-> "none"]

\* ventureVentureverifyJWT: the access-token middleware of the venture
\* role, as adminverifyJWT is for the admin role.
VentureGate(header) ==
    LET token == BearerToken(header)
        tried == IF token = NoCred THEN MissingTokenError
                 ELSE TryVerifyJWT("venture", token)
    IN  [next |-> tried.thrown = "next",
         code |-> IF token = NoCred THEN tried.code ELSE Catch(tried),
         attached |-> IF tried.thrown = "next"
                      THEN FindById("venture", token) ELSE {}]

\* What stands ahead of the handler of `route`: the middleware's outcome,
\* or, on a route without one, the handler is called with no req.venture.
Ahead(route, header) ==
    IF couponRouter[route] = "ventureVentureverifyJWT"
    THEN VentureGate(header)
    ELSE [next |-> TRUE, code |-> 0, attached |-> {}]

\* req.venture?._id for the handler: the attached venture's _id, or
\* undefined ("none").
VentureOf(attached) ==
    IF attached = {} THEN "none"
    ELSE IF 1 \in attached THEN "v1" ELSE "v2"

\* The middleware has thrown: the request is answered and no handler runs.
Refused(route, header) ==
    /\ resp' = [op |-> "ventureVentureverifyJWT", route |-> route,
                header |-> header, next |-> FALSE,
                code |-> Ahead(route, header).code]
    /\ UNCHANGED <<coupons, ads, now, inflight, auth>>

\* POST /create.  The middleware reads the Venture collection, which no
\* request of the coupon router writes, and calls the handler; the step
\* runs on to the handler's first store operation.  Without req.venture,
\* ventureId.toString() throws a TypeError.
routeCreate(header, body) ==
    IF ~Ahead("create", header).next THEN Refused("create", header)
    ELSE IF Ahead("create", header).attached = {}
    THEN /\ resp' = [op |-> "createCoupon", code |-> 500, body |-> body]
         /\ UNCHANGED <<coupons, ads, now, inflight, auth>>
    ELSE createCoupon(VentureOf(Ahead("create", header).attached), "none", body)

\* PATCH /edit/:id
routeEdit(header, id, body) ==
    IF ~Ahead("edit", header).next THEN Refused("edit", header)
    ELSE editCoupon_load(VentureOf(Ahead("edit", header).attached), id, body)

\* DELETE /delete/:id
routeDelete(header, id) ==
    IF ~Ahead("delete", header).next THEN Refused("delete", header)
    ELSE deleteCouponById_load(VentureOf(Ahead("delete", header).attached), id)

\* DELETE /reject/:id
routeReject(header, id) ==
    IF ~Ahead("reject", header).next THEN Refused("reject", header)
    ELSE rejectCouponById_load(id)

\* ---- auth controllers ------------------------------------------------
\* POST /login: both tokens are signed and the refresh token is stored on
\* the principal, replacing the one before.
login(kind, n) ==
    /\ principals' = [principals EXCEPT
            ![kind][n].refreshToken = RefreshTokenOf(kind, n, now)]
    /\ issued' = issued \cup {AccessTokenOf(kind, n, now), RefreshTokenOf(kind, n, now)}
    /\ resp' = [op |-> "login", kind |-> kind, code |-> 200,
                accessToken |-> AccessTokenOf(kind, n, now),
                refreshToken |-> RefreshTokenOf(kind, n, now)]
    /\ UNCHANGED <<coupons, ads, now, inflight, accepted>>

\* POST /refresh-token behind verifyRefreshToken: new tokens are signed and
\* the stored refresh token is replaced.
refreshAccessToken(r) ==
    /\ r.op = "refreshAccessToken"
    /\ inflight' = inflight \ {r}
    /\ principals' = [principals EXCEPT
            ![r.kind][r.n].refreshToken = RefreshTokenOf(r.kind, r.n, now)]
    /\ issued' = issued \cup {AccessTokenOf(r.kind, r.n, now),
                               RefreshTokenOf(r.kind, r.n, now)}
    /\ resp' = [op |-> "refreshAccessToken", kind |-> r.kind, code |-> 200,
                accessToken |-> AccessTokenOf(r.kind, r.n, now),
                refreshToken |-> RefreshTokenOf(r.kind, r.n, now)]
    /\ UNCHANGED <<coupons, ads, now, accepted>>

\* POST /logout behind the access-token middleware: the stored refresh
\* token is cleared.
logout(r) ==
    /\ r.op = "logout"
    /\ inflight' = inflight \ {r}
    /\ principals' = [principals EXCEPT ![r.kind][r.n].refreshToken = NoCred]
    /\ resp' = [op |-> "logout", kind |-> r.kind, code |-> 200]
    /\ UNCHANGED <<coupons, ads, now, issued, accepted>>

\* ---- specifications ---------------------------------------------------
\* The coupon lifecycle under interleaved requests.
CouponNext ==
    \/ Tick(MaxTime)
    \/ \E v \in {"v1"}, body \in LifecycleBodies : createCoupon(v, "none", body)
    \/ \E id \in ReqIds : rejectCouponById_load(id)
    \/ \E r \in inflight : rejectCouponById_save(r)
    \/ \E v \in {"v1"}, id \in ReqIds : deleteCouponById_load(v, id)
    \/ \E r \in inflight : deleteCouponById_save(r)
    \/ \E v \in {"v1"}, id \in ReqIds, body \in EditBodies :
          editCoupon_load(v, id, body)
    \/ \E r \in inflight : editCoupon_update(r)
    \/ displayCoupons_sweep
    \/ \E r \in inflight : displayCoupons_read(r)
    \/ displayActiveCoupons
    \/ displayExpiredCoupons
    \/ displayDeletedCoupons

SpecCoupon == Init /\ [][CouponNext]_vars

\* Tokens, the middlewares and the auth controllers.
AuthNext ==
    \/ Tick(MaxAuthTime)
    \/ \E kind \in Kinds, n \in PrincipalIds : login(kind, n)
    \/ \E route \in GuardedRoutes, header \in AuthHeaders :
          adminverifyJWT(route, header)
    \/ \E route \in GuardedRoutes, header \in AuthHeaders :
          userverifyJWT(route, header)
    \/ \E in \in RefreshInputs : adminVerifyRefreshToken(in[1], in[2])
    \/ \E in \in RefreshInputs : userVerifyRefreshToken(in[1], in[2])
    \/ \E r \in inflight : refreshAccessToken(r)
    \/ \E r \in inflight : logout(r)

SpecAuth == Init /\ [][AuthNext]_vars

\* Every request of the application.
Next == CouponNext \/ AuthNext

Spec == Init /\ [][Next]_vars

\* createCoupon on every request body.
CreateNext ==
    \/ \E body \in ValidationBodies : createCoupon("v1", "none", body)
    \/ \E file \in Files, body \in UploadBodies : createCoupon("v1", file, body)

SpecCreate == Init /\ [][CreateNext]_vars

\* The coupons of two ventures: created, moderated, swept and listed by
\* venture.
VentureBodies == {b \in LifecycleBodies : b.offerDescription = "ok"}

VentureNext ==
    \/ Tick(MaxTime)
    \/ \E v \in Ventures, body \in VentureBodies : createCoupon(v, "none", body)
    \/ \E id \in ReqIds : rejectCouponById_load(id)
    \/ \E r \in inflight : rejectCouponById_save(r)
    \/ \E v \in Ventures, id \in ReqIds : deleteCouponById_load(v, id)
    \/ \E r \in inflight : deleteCouponById_save(r)
    \/ displayCoupons_sweep
    \/ \E r \in inflight : displayCoupons_read(r)
    \/ \E v \in Ventures : getVentureCouponsById(v)

SpecVenture == Init /\ [][VentureNext]_vars

\* The advertisements' lifecycle under interleaved requests.
AdNext ==
    \/ Tick(MaxTime)
    \/ \E body \in AdBodies : createItem("v1", body)
    \/ displayAdv_sweep
    \/ \E r \in inflight : displayAdv_read(r)
    \/ \E id \in 0..MaxAds : deleteItemById_load(id)
    \/ \E r \in inflight : deleteItemById_save(r)

SpecAd == Init /\ [][AdNext]_vars

\* analytics on every view log.
AnalyticsNext == analytics

SpecAnalytics == InitAnalytics /\ [][AnalyticsNext]_vars

\* The coupon router's writing routes behind their middleware.
RouterBodies ==
    {b \in VentureBodies : b.expiryDate.v = MaxTime + 1}

RouterEditBodies ==
    {b \in EditBodies : b.status = "missing" /\ b.expiryDate.v = 1}

RouterNext ==
    \/ Tick(MaxTime)
    \/ \E n \in PrincipalIds : login("venture", n)
    \/ \E header \in AuthHeaders, body \in RouterBodies :
          routeCreate(header, body)
    \/ \E header \in AuthHeaders, id \in ReqIds, body \in RouterEditBodies :
          routeEdit(header, id, body)
    \/ \E r \in inflight : editCoupon_update(r)
    \/ \E header \in AuthHeaders, id \in ReqIds : routeDelete(header, id)
    \/ \E r \in inflight : deleteCouponById_save(r)
    \/ \E header \in AuthHeaders, id \in ReqIds : routeReject(header, id)
    \/ \E r \in inflight : rejectCouponById_save(r)

SpecRouter == Init /\ [][RouterNext]_vars

\* ---- claims: coupon lifecycle -----------------------------------------
\* The _id values of a listing.
ListedIds(list) == {list[k].id : k \in 1..Len(list)}

\* A coupon the sweep is due to expire at time `at`.
Overdue(c, at) == c.status = "active" /\ c.expiryDate <= at

\* C1: every coupon that is active with expiryDate <= now when a listing
\* call runs (listAll at its sweep, list-active, list-expired) is stored as
\* expired by that call; list-active does not return it and list-expired
\* returns it.
C1_ListingExpiresOverdue ==
    [][\A i \in 1..Len(coupons) :
          Overdue(coupons[i], now) =>
            /\ (\E r \in inflight' \ inflight : r.op = "displayCoupons")
                  => coupons'[i].status = "expired"
            /\ resp'.op = "displayActiveCoupons"
                  => /\ coupons'[i].status = "expired"
                     /\ i \notin ListedIds(resp'.coupons)
            /\ resp'.op = "displayExpiredCoupons"
                  => /\ coupons'[i].status = "expired"
                     /\ i \in ListedIds(resp'.coupons)]_vars

\* C2: once a coupon's status is deleted or rejected, no step of any
\* request (sweep, edit, the load and save steps of reject and softDelete)
\* sets it to active or expired.
C2_TerminalNeverRevived ==
    [][\A i \in 1..Len(coupons) :
          coupons[i].status \in {"deleted", "rejected"}
            => coupons'[i].status \notin {"active", "expired"}]_vars

\* C2 witness: a listing whose sweep ran at resp.at returns a deleted or
\* rejected coupon with expiryDate <= resp.at, while a reject or softDelete
\* is suspended between its load and its save.
C2_Witness ==
    /\ resp.op = "displayCoupons"
    /\ \E k \in 1..Len(resp.coupons) :
          /\ resp.coupons[k].status \in {"deleted", "rejected"}
          /\ resp.coupons[k].expiryDate <= resp.at
    /\ \E r \in inflight : r.op \in {"rejectCouponById", "deleteCouponById"}

\* C3: a deleted coupon stays deleted and a rejected coupon stays rejected,
\* whatever is called.
C3_DeletedRejectedFixed ==
    [][\A i \in 1..Len(coupons) :
          /\ coupons[i].status = "deleted" => coupons'[i].status = "deleted"
          /\ coupons[i].status = "rejected" => coupons'[i].status = "rejected"]_vars

\* C4: once a coupon's status is expired it never becomes active again.
C4_ExpiredNeverActive ==
    [][\A i \in 1..Len(coupons) :
          coupons[i].status = "expired" => coupons'[i].status # "active"]_vars

\* C4 witness: a listing returns an expired coupon whose expiryDate lies in
\* the future: an edit moved the date after the sweep had expired it.
C4_Witness ==
    /\ resp.op \in {"displayCoupons", "displayExpiredCoupons"}
    /\ \E k \in 1..Len(resp.coupons) :
          /\ resp.coupons[k].status = "expired"
          /\ resp.coupons[k].expiryDate > now

\* ---- claims: moderation and edit ---------------------------------------
\* The handler that sends its response in this step.
Completing(op) == {r \in inflight \ inflight' : r.op = op}

\* C15: no step removes a coupon (the record identifiers only grow), and
\* the steps of reject and softDelete change nothing but the status field.
C15_NeverRemoved ==
    [][/\ DOMAIN coupons \subseteq DOMAIN coupons'
       /\ resp'.op \in {"rejectCouponById", "deleteCouponById"}
            => /\ DOMAIN coupons' = DOMAIN coupons
               /\ \A i \in DOMAIN coupons :
                     [coupons'[i] EXCEPT !.status = coupons[i].status]
                        = coupons[i]]_vars

\* C15 witness: a softDelete has answered 200 on a full store, whose
\* coupon is now deleted.
C15_Witness ==
    /\ resp.op = "deleteCouponById"
    /\ resp.code = 200
    /\ Len(coupons) = MaxCoupons
    /\ coupons[resp.id].status = "deleted"

\* C16: an edit of a coupon whose status is deleted leaves every field of
\* the record unchanged.
C16_DeletedNotEdited ==
    [][\A r \in Completing("editCoupon") :
          coupons[r.id].status = "deleted" => coupons'[r.id] = coupons[r.id]]_vars

\* The status a moderation handler sets.
TargetStatus(op) == IF op = "rejectCouponById" THEN "rejected" ELSE "deleted"

C18_ListByVenture ==
    (resp.op = "getVentureCouponsById" /\ resp.code = 200) =>
        /\ ListedIds(resp.coupons)
              = {i \in 1..Len(coupons) : coupons[i].createdBy = resp.venture}
        /\ Cardinality(ListedIds(resp.coupons)) = Len(resp.coupons)
        /\ \A k \in 1..Len(resp.coupons) :
              /\ resp.coupons[k].status = coupons[resp.coupons[k].id].status
              /\ resp.coupons[k].createdBy = resp.venture
        /\ DOMAIN resp.statusCounts
              = {"active", "expired", "deleted", "rejected", "claimed"}
        /\ \A st \in DOMAIN resp.statusCounts :
              resp.statusCounts[st]
                = Cardinality({k \in 1..Len(resp.coupons) :
                                  resp.coupons[k].status = st})
        /\ resp.total = Len(resp.coupons)

\* C18 witness: a venture is listed its one coupon, which is rejected, while
\* the store also holds a coupon of the other venture.
C18_Witness ==
    /\ resp.op = "getVentureCouponsById"
    /\ resp.total = 1
    /\ resp.statusCounts["rejected"] = 1
    /\ Len(coupons) = 2

\* ---- claims: advertisements -------------------------------------------
\* An advertisement the sweep is due to expire at time `at`.
OverdueAd(a, at) == a.status = "active" /\ a.validity <= at

\* C19: list-all runs the sweep before it reads: at the sweep every
\* advertisement that is active with validity <= now becomes expired, every
\* other one (deleted, expired, or validity > now) is left as it is, and the
\* response is only sent by a call that has swept.
C19_AdSweepBeforeRead ==
    [][/\ (\E r \in inflight' \ inflight : r.op = "displayAdv")
            => /\ Len(ads') = Len(ads)
               /\ \A i \in 1..Len(ads) :
                     IF OverdueAd(ads[i], now)
                     THEN ads'[i].status = "expired"
                     ELSE ads'[i] = ads[i]
       /\ resp'.op = "displayAdv"
            => /\ Completing("displayAdv") # {}
               /\ ads' = ads]_vars

\* C19 witness: a list-all call has swept at resp.at and returns an overdue
\* advertisement as expired, a deleted one with validity <= resp.at still
\* as deleted.
C19_Witness ==
    /\ resp.op = "displayAdv"
    /\ \E k \in 1..Len(resp.data) :
          resp.data[k].status = "expired" /\ resp.data[k].validity <= resp.at
    /\ \E k \in 1..Len(resp.data) :
          resp.data[k].status = "deleted" /\ resp.data[k].validity <= resp.at

\* The view records of the collection, <<advertisement, position>>, and the
\* calendar day and the user of one.
Views ==
    UNION {{<<i, k>> : k \in 1..Len(ads[i].viewers)} : i \in 1..Len(ads)}

ViewDay(v) == ads[v[1]].viewers[v[2]].viewedAt \div TicksPerDay
ViewUser(v) == ads[v[1]].viewers[v[2]].userId

\* C20: analytics returns one entry for every calendar day with a view on
\* any advertisement and none for other days; its totalViews is the number
\* of view records of that day across all advertisements, its
\* uniqueUsersCount the number of distinct users among them; the entries are
\* in descending order of date.
C20_AnalyticsPerDay ==
    resp.op = "analytics" =>
        /\ {resp.data[k].date : k \in 1..Len(resp.data)}
              = {ViewDay(v) : v \in Views}
        /\ \A k \in 1..Len(resp.data) :
              /\ resp.data[k].totalViews
                    = Cardinality({v \in Views : ViewDay(v) = resp.data[k].date})
              /\ resp.data[k].uniqueUsersCount
                    = Cardinality({ViewUser(v) : v \in
                          {w \in Views : ViewDay(w) = resp.data[k].date}})
        /\ \A k \in 1..(Len(resp.data) - 1) :
              resp.data[k].date > resp.data[k + 1].date

\* C20 witness: views on both advertisements on two days, one user twice on
\* the earlier day: that day counts two views of one user.
C20_Witness ==
    /\ resp.op = "analytics"
    /\ \A i \in 1..Len(ads) : ads[i].viewers # <<>>
    /\ Len(resp.data) = 2
    /\ resp.data[2].totalViews = 2
    /\ resp.data[2].uniqueUsersCount = 1

\* ---- claims: interleaving and ownership --------------------------------
\* C22: every coupon a listAll call returns whose expiryDate is <= the time
\* at which the call ran its sweep has a status other than active, also
\* when create or edit requests run between the call's sweep and its read.
C22_ListAllReflectsSweep ==
    resp.op = "displayCoupons" =>
        \A k \in 1..Len(resp.coupons) :
            resp.coupons[k].expiryDate <= resp.at
                => resp.coupons[k].status # "active"

\* C23: an edit or softDelete request of venture V changes a coupon only if
\* the coupon's createdBy is V; a request of another venture leaves the
\* coupon as it is.
C23_OwnershipScoped ==
    [][\A r \in Completing("editCoupon") \cup Completing("deleteCouponById") :
          coupons[r.id].createdBy # r.venture
              => coupons'[r.id] = coupons[r.id]]_vars

\* ---- claims: the coupon router ----------------------------------------
\* The handlers that need req.venture, and the step in which one starts:
\* it answers from its first store operation or is suspended on it.
VentureHandlers == {"createCoupon", "editCoupon", "deleteCouponById"}

Started(op) == {r \in inflight' \ inflight : r.op = op}

Starts(op) ==
    \/ Started(op) # {}
    \/ resp'.op = op /\ Completing(op) = {}

\* An unexpired access token of a venture is in circulation: a token on
\* which the venture middleware attaches venture `v`.
Authenticates(c, v) ==
    /\ c.t = "jwt"
    /\ c.kind = "venture"
    /\ c.secret = "ACCESS_TOKEN_SECRET"
    /\ now < c.exp
    /\ VentureOf({c.n}) = v

\* C21: the create, edit and softDelete handlers start only on a request on
\* which the venture middleware attached a principal (some unexpired
\* venture token exists, and the handler runs for that venture); a request
\* the middleware refuses is answered 401 and leaves the coupons, the
\* principals and the suspended handlers as they were.
C21_MiddlewareBeforeHandler ==
    [][/\ \A op \in VentureHandlers :
            Starts(op) =>
                /\ \E c \in issued, v \in Ventures : Authenticates(c, v)
                /\ \A r \in Started(op) :
                      \E c \in issued : Authenticates(c, r.venture)
                /\ Len(coupons') > Len(coupons) =>
                      \E c \in issued :
                          Authenticates(c, coupons'[Len(coupons')].createdBy)
       /\ resp'.op = "ventureVentureverifyJWT" =>
            /\ ~resp'.next
            /\ resp'.code = 401
            /\ coupons' = coupons
            /\ principals' = principals
            /\ inflight' = inflight]_vars

\* C21 witness: a venture created a coupon with its token; the same token,
\* now expired, is refused on the delete route.
C21_Witness ==
    /\ resp.op = "ventureVentureverifyJWT"
    /\ resp.route = "delete"
    /\ resp.header.cred \in issued
    /\ resp.header.cred.kind = "venture"
    /\ resp.header.cred.secret = "ACCESS_TOKEN_SECRET"
    /\ resp.header.cred.exp <= now
    /\ \E i \in 1..Len(coupons) :
          coupons[i].createdBy = VentureOf({resp.header.cred.n})

\* ---- claims: createCoupon ---------------------------------------------
\* C5: a successful create persists the new record with status active,
\* also when the body carries keys the create schema does not name.
C5_CreatedActive ==
    (resp.op = "createCoupon" /\ resp.code = 201)
        => coupons[resp.id].status = "active"

\* C6: a create whose claimPercentage lies outside [0, 100] is answered 400
\* with a message on claimPercentage, and the store is left as it was.
C6_ClaimOutOfRange ==
    [][(/\ resp'.op = "createCoupon"
        /\ \E x \in resp'.body.claimPercentage : x < 0 \/ x > 100)
          => /\ resp'.code = 400
             /\ \E k \in 1..Len(resp'.errors) :
                   resp'.errors[k][1] = "claimPercentage"
             /\ coupons' = coupons]_vars

\* C6 witness: a create with claimPercentage 101 was answered 400 on a
\* store that holds a coupon.
C6_Witness ==
    /\ resp.op = "createCoupon"
    /\ resp.code = 400
    /\ resp.body.claimPercentage = {101}
    /\ resp.body.couponTitle = "ok"
    /\ Len(coupons) > 0

\* The keys couponSchema requires, and those of them a body lacks.
RequiredKeys ==
    {"couponTitle", "offerTitle", "offerDescription", "termsAndConditions",
     "expiryDate"}

MissingKeys(body) ==
    {f \in RequiredKeys :
        IF f = "expiryDate" THEN body.expiryDate.st = "missing"
        ELSE body[f] = "missing"}

MessagesOn(errors, f) == {k \in 1..Len(errors) : errors[k][1] = f}

\* C7: validation does not stop at the first failure: whichever required
\* keys the body lacks, the create is answered 400, the errors hold exactly
\* one message for each missing key (a "required" message, and as many of
\* these as there are missing keys), and no record is created.
C7_OneMessagePerMissingKey ==
    [][(resp'.op = "createCoupon" /\ MissingKeys(resp'.body) # {})
          => /\ resp'.code = 400
             /\ \A f \in MissingKeys(resp'.body) :
                   /\ Cardinality(MessagesOn(resp'.errors, f)) = 1
                   /\ \A k \in MessagesOn(resp'.errors, f) :
                         resp'.errors[k][2] = "any.required"
             /\ Cardinality({k \in 1..Len(resp'.errors) :
                                resp'.errors[k][2] = "any.required"})
                   = Cardinality(MissingKeys(resp'.body))
             /\ coupons' = coupons]_vars

\* C7 witness: a create that lacks all five required keys was answered with
\* five messages.
C7_Witness ==
    /\ resp.op = "createCoupon"
    /\ resp.code = 400
    /\ MissingKeys(resp.body) = RequiredKeys
    /\ Len(resp.errors) = 5

\* ---- claims: auth middlewares -----------------------------------------
\* C8: a request whose bearer token is an access token that has expired is
\* answered 401 by adminverifyJWT and userverifyJWT and next() is not
\* called, however often the token was let through before.
C8_ExpiredAccessRejected ==
    (/\ resp.op = "verifyJWT"
     /\ resp.token.t = "jwt"
     /\ resp.token.secret = "ACCESS_TOKEN_SECRET"
     /\ resp.token.exp <= now)
        => (resp.code = 401 /\ ~resp.next /\ resp.attached = {})

\* C8 witness: an expired access token is refused that the middleware had
\* let through before it expired.
C8_Witness ==
    /\ resp.op = "verifyJWT"
    /\ resp.token \in accepted
    /\ resp.token.exp <= now
    /\ resp.code = 401

\* The refresh token stored on the principal a token names.
StoredRefreshToken(token) == principals[token.kind][token.n].refreshToken

\* A refresh token of a principal of the middleware's kind, correctly
\* signed and not expired.
ValidRefreshPresented ==
    /\ resp.op = "verifyRefreshToken"
    /\ resp.token.t = "jwt"
    /\ resp.token.secret = "REFRESH_TOKEN_SECRET"
    /\ resp.token.kind = resp.kind
    /\ now < resp.token.exp

\* C9: a refresh token whose signature and expiry are valid but which is
\* not the one stored on its principal is answered 403.
C9_MismatchIs403 ==
    (ValidRefreshPresented /\ StoredRefreshToken(resp.token) # resp.token)
        => resp.code = 403

\* C10: verifyRefreshToken calls next() only for the token that is stored
\* on the principal at that moment; every other refresh token, such as one
\* issued before the stored one was replaced or cleared, is refused.
C10_OnlyStoredTokenPasses ==
    resp.op = "verifyRefreshToken" =>
        /\ resp.next =>
              /\ resp.token.t = "jwt"
              /\ resp.token.kind = resp.kind
              /\ StoredRefreshToken(resp.token) = resp.token
        /\ (ValidRefreshPresented /\ StoredRefreshToken(resp.token) # resp.token)
              => (~resp.next /\ resp.code >= 400)

\* C10 witness: an unexpired refresh token issued earlier to the same
\* principal is refused after the stored token was replaced or cleared.
C10_Witness ==
    /\ ValidRefreshPresented
    /\ resp.token \in issued
    /\ resp.token.claim = "_id"
    /\ StoredRefreshToken(resp.token) # resp.token
    /\ ~resp.next

\* An access token of this server, presented before it expires.
UnexpiredAccessPresented ==
    /\ resp.op = "verifyJWT"
    /\ resp.token.t = "jwt"
    /\ resp.token.secret = "ACCESS_TOKEN_SECRET"
    /\ now < resp.token.exp

\* C11: when the access token verifies but there is no principal record for
\* the id in its claim, the middleware answers 404, attaches nothing and
\* does not call next().
C11_MissingPrincipalIs404 ==
    (UnexpiredAccessPresented /\ FindById(resp.kind, resp.token) = {})
        => (resp.code = 404 /\ ~resp.next /\ resp.attached = {})

\* C12: an access token issued for a principal of one kind never passes the
\* signature verification (jwt.verify) of another kind's middleware.
C12_NotCrossValid ==
    (/\ resp.op = "verifyJWT"
     /\ resp.token.t = "jwt"
     /\ resp.token.secret = "ACCESS_TOKEN_SECRET"
     /\ resp.token.kind # resp.kind)
        => resp.thrown = "JsonWebTokenError"

\* C13: an unexpired access token issued for an existing principal is let
\* through by the middleware of the principal's kind, with exactly that
\* principal attached.
C13_IssueVerifyRoundTrip ==
    (/\ UnexpiredAccessPresented
     /\ resp.token \in issued
     /\ resp.token.kind = resp.kind
     /\ resp.token.n \in PrincipalIds)
        => (resp.next /\ resp.attached = {resp.token.n})

\* C14: a request without a bearer token (no Authorization header, or one
\* that does not start with "Bearer ") is answered 401 with nothing attached
\* and next() not called; so is a refresh request with neither the cookie
\* nor the x-refresh-token header.
C14_MissingTokenIs401 ==
    (\/ resp.op = "verifyJWT" /\ resp.header.scheme # "Bearer"
     \/ /\ resp.op = "verifyRefreshToken"
        /\ resp.cookie = NoCred
        /\ resp.xheader = NoCred)
        => (resp.code = 401 /\ ~resp.next /\ resp.attached = {})

\* C14 witness: a request with another Authorization scheme is refused
\* while tokens are in circulation that a middleware has let through.
C14_Witness ==
    /\ resp.op = "verifyJWT"
    /\ resp.header.scheme = "Basic"
    /\ resp.thrown = "missing"
    /\ resp.code = 401
    /\ accepted # {}

====
